---------------------------- MODULE Spec2Model ----------------------------
(***************************************************************************)
(* Multisensor dashboard: the sensor store (src/src/sensor_data.py,        *)
(* src/src/influx_db_data.py) and the dashboard's threshold evaluation and *)
(* forecasting window (src/app.py).                                        *)
(*                                                                         *)
(* Numbers.  A sensor value is kept in tenths (17.9 is 179), a room volume *)
(* in thousandths of a cubic metre (67.392 is 67392), a time in minutes.   *)
(***************************************************************************)
EXTENDS Integers, Sequences, FiniteSets, TLC

VARIABLES
    occ_in,     \* calculate_occupancy: the call's inputs
    occ_out,    \* calculate_occupancy: NotCalled before the call, then its outcome
    warn_in,    \* check_for_warnings: the call's inputs
    warn_out,   \* check_for_warnings: NotCalled before the call, then its outcome
    pred_in,    \* predict_data: the call's inputs
    pred_out,   \* predict_data: NotCalled before the call, then the window it fits
    show_in,    \* show_current_data: the sensor shown, its stored data and the clock
    show_out,   \* show_current_data: NotCalled before the call, then what it has
                \* read and done so far and where it is (pc)
    data,       \* Sensor_Data.data: per room the sensors' current values and histories
    pc,         \* where the refresh thread is: "idle" before it is started
    job,        \* the running tick's inputs and loop positions
    ticks,      \* update() calls started so far
    last,       \* how the last finished tick went
    fetched,    \* the store as it stood when the last tick's occupancy pass raised
    before,     \* the store when the running (or last) tick began
    after,      \* the store the running tick will leave when it returns
    snap,       \* the room the request path read during the tick, and whether what
                \* it saw was neither the room before the tick nor the room after it
    counter     \* a PeopleCounter: its people_count, the event_type it processed
                \* last and how many events it has processed

calls == <<occ_in, occ_out, warn_in, warn_out, pred_in, pred_out, show_in, show_out>>
store == <<data, pc, job, ticks, last, fetched, before, after, snap>>
vars == <<calls, store, counter>>

-----------------------------------------------------------------------------
(* Python values held in the store or passed to the dashboard's functions.  *)

\* An int or float, n in tenths.
Num(n) == [t |-> "num", n |-> n, s |-> ""]
\* A string that float() parses, n in tenths (Home Assistant states are strings).
NumStr(n) == [t |-> "numstr", n |-> n, s |-> ""]
\* A string that float() does not parse ('unknown', 'unavailable').
Str(s) == [t |-> "str", n |-> 0, s |-> s]
\* None.
None == [t |-> "none", n |-> 0, s |-> ""]

Tenths(x) == 10 * x

\* A conversion that takes the absent value None for 0.0.
ToFloat_none_as_zero(v) ==
    CASE v.t \in {"num", "numstr"} -> [ok |-> TRUE, n |-> v.n, exc |-> ""]
      [] v.t = "str" -> [ok |-> FALSE, n |-> 0, exc |-> "ValueError"]
      [] OTHER -> [ok |-> TRUE, n |-> 0, exc |-> ""]

\* float(v): the number (in tenths), or the exception float() raises.
ToFloat(v) ==
    CASE v.t \in {"num", "numstr"} -> [ok |-> TRUE, n |-> v.n, exc |-> ""]
      [] v.t = "str" -> [ok |-> FALSE, n |-> 0, exc |-> "ValueError"]
      [] OTHER -> [ok |-> FALSE, n |-> 0, exc |-> "TypeError"]

\* What a call returns (val) or the exception it raises (exc).
Returned(x) == [ok |-> TRUE, val |-> x, exc |-> ""]
Raised(e) == [ok |-> FALSE, val |-> 0, exc |-> e]

\* Python's round(num / den) for den > 0: to the nearest integer, a tie to the even one.
RoundHalfEven(num, den) ==
    LET q == num \div den
        r == num % den
    IN  IF 2 * r < den THEN q
        ELSE IF 2 * r > den THEN q + 1
        ELSE IF q % 2 = 0 THEN q ELSE q + 1

\* max(0, x) left out: the second argument as it is.
MaxUnclamped(a, b) == b

\* max(a, b)
Max(a, b) == IF a >= b THEN a ELSE b

-----------------------------------------------------------------------------
(* create_sensor_dict: the rooms, their volumes and their sensors.          *)

\* The keys of sensor_room_mapping, in the dict's order.
sensor_room_mapping ==
    << "multisensor_115", "multisensor_108", "multisensor_107", "multisensor_114",
       "multisensor_110", "multisensor_109", "multisensor_104", "multisensor_106",
       "multisensor_111", "multisensor_103", "multisensor_113", "multisensor_112",
       "multisensor_105" >>

AllRooms == {sensor_room_mapping[i] : i \in 1..Len(sensor_room_mapping)}

\* self.room_volume of each room's sensor, area * 3.2 in thousandths.
room_volume ==
    "multisensor_115" :> 67392 @@ "multisensor_108" :> 44928 @@
    "multisensor_107" :> 96096 @@ "multisensor_114" :> 100064 @@
    "multisensor_110" :> 42432 @@ "multisensor_109" :> 162240 @@
    "multisensor_104" :> 282464 @@ "multisensor_106" :> 140352 @@
    "multisensor_111" :> 153600 @@ "multisensor_103" :> 148320 @@
    "multisensor_113" :> 111168 @@ "multisensor_112" :> 0 @@
    "multisensor_105" :> 0

\* The keys of self.multisensor_sensors, in the dict's order.
multisensor_sensors ==
    << "Humidity", "Temperature", "CO2", "IAQ", "UV Index", "Microphone Noise Level",
       "Pressure", "Light", "Gas Resistance", "Occupancy" >>

SensorKinds == {multisensor_sensors[i] : i \in 1..Len(multisensor_sensors)}

\* The "id" of each sensor, split at its underscores ("_scd30_co2" is scd30, co2).
sensor_id ==
    "Humidity" :> <<"humidity">> @@ "Temperature" :> <<"temperature">> @@
    "CO2" :> <<"scd30", "co2">> @@ "IAQ" :> <<"bme680", "iaq">> @@
    "UV Index" :> <<"ltr390", "uv", "index">> @@
    "Microphone Noise Level" :> <<"microphone", "noise", "level">> @@
    "Pressure" :> <<"bme680", "pressure">> @@ "Light" :> <<"ltr390", "light">> @@
    "Gas Resistance" :> <<"bme680", "gas", "resistance">> @@
    "Occupancy" :> <<"people">>

\* How many of the 13 rooms the store is modelled with: the first NumRooms.
NumRooms == 2

Rooms == {sensor_room_mapping[i] : i \in 1..NumRooms}

\* The dict create_sensor_dict returns: every current_value None, every history empty.
create_sensor_dict ==
    [r \in Rooms |->
        [current_value |-> [k \in SensorKinds |-> None],
         history |-> [k \in SensorKinds |-> <<>>]]]

\* The store variables right after create_sensor_dict, before the first update().
NoTick == [outcome |-> "none", failed |-> "", room |-> ""]
NoJob == [response |-> Raised(""), db |-> Raised(""), draw |-> 0, i |-> 0, j |-> 0, k |-> 0]
NoSnap == [room |-> "", mixed |-> FALSE]

\* PeopleCounter(): people_count = 0, no event processed yet.
PeopleCounter == [people_count |-> 0, event_type |-> "", processed |-> 0]

StoreAtStartup ==
    /\ data = create_sensor_dict
    /\ pc = "idle"
    /\ job = NoJob
    /\ ticks = 0
    /\ last = NoTick
    /\ fetched = create_sensor_dict
    /\ before = create_sensor_dict
    /\ after = create_sensor_dict
    /\ snap = NoSnap

-----------------------------------------------------------------------------
(* Sensor_Data.calculate_occupancy                                          *)

\* int(self.data[room_id]["volume"]): the volume truncated to whole cubic metres.
IntVolume(volume_milli) == volume_milli \div 1000

\* An estimator that divides by the room volume where the code multiplies by it.
calculate_occupancy_per_volume(current_value, volume_milli, baseline_co2, emission_rate, time_elapsed) ==
    IF ~ToFloat(current_value).ok THEN Raised(ToFloat(current_value).exc)
    ELSE IF ToFloat(current_value).n # 0
    THEN IF emission_rate * time_elapsed = 0 \/ volume_milli \div 1000 = 0
         THEN Raised("ZeroDivisionError")
         ELSE Returned(Max(0, RoundHalfEven(
                  (ToFloat(current_value).n - 10 * baseline_co2) * 9,
                  25 * emission_rate * time_elapsed * (volume_milli \div 1000))))
    ELSE Returned(0)

\* calculate_occupancy on a room's CO2 current value and stored volume (thousandths):
\*   current_co2 = float(current_value); room_volume = int(volume)
\*   people_count = (current_co2 - baseline_co2) * room_volume / 1000
\*                  / (emission_rate * (time_elapsed / 3600))
\* with current_co2 in tenths of ppm: people_count is
\*   (tenths - 10 * baseline_co2) * room_volume * 3600 / (10 * 1000 * emission_rate * time_elapsed),
\* written with 3600 / 10000 reduced to 9 / 25.
calculate_occupancy_with(current_value, volume_milli, baseline_co2, emission_rate, time_elapsed) ==
    LET f == ToFloat(current_value)
        volume == IntVolume(volume_milli)
    IN  IF ~f.ok THEN Raised(f.exc)
        ELSE IF f.n # 0
        THEN IF emission_rate * time_elapsed = 0
             THEN Raised("ZeroDivisionError")
             ELSE Returned(Max(0, RoundHalfEven(
                      (f.n - Tenths(baseline_co2)) * volume * 9,
                      25 * emission_rate * time_elapsed)))
        ELSE Returned(0)

\* The defaults of the signature: baseline_co2=550, emission_rate=18, time_elapsed=3600.
calculate_occupancy(current_value, volume_milli) ==
    calculate_occupancy_with(current_value, volume_milli, 550, 18, 3600)

-----------------------------------------------------------------------------
(* Sensor_Data.update_occupancy                                             *)

\* A turn of the loop that writes the estimate to the CO2 sensor as well.
occupancy_step_both_sensors(d, room_id) ==
    LET c == calculate_occupancy(d[room_id].current_value["CO2"], room_volume[room_id])
    IN  IF c.ok
        THEN Returned([d EXCEPT ![room_id].current_value["Occupancy"] = Num(Tenths(c.val)),
                                ![room_id].current_value["CO2"] = Num(Tenths(c.val))])
        ELSE Raised(c.exc)

\* One turn of the loop: room_id's Occupancy current_value becomes the estimate.
\* Returned(the store) or the exception calculate_occupancy raises.
occupancy_step(d, room_id) ==
    LET c == calculate_occupancy(d[room_id].current_value["CO2"], room_volume[room_id])
    IN  IF c.ok
        THEN Returned([d EXCEPT ![room_id].current_value["Occupancy"] = Num(Tenths(c.val))])
        ELSE Raised(c.exc)

\* The loop over the rooms from the i-th on, in the dict's order.  The result
\* carries the store as the loop left it and, when a room raised, that room.
RECURSIVE update_occupancy_from(_, _)
update_occupancy_from(d, i) ==
    IF i > NumRooms THEN [ok |-> TRUE, d |-> d, room |-> "", exc |-> ""]
    ELSE LET r == occupancy_step(d, sensor_room_mapping[i])
         IN  IF r.ok THEN update_occupancy_from(r.val, i + 1)
             ELSE [ok |-> FALSE, d |-> d, room |-> sensor_room_mapping[i], exc |-> r.exc]

update_occupancy(d) == update_occupancy_from(d, 1)

-----------------------------------------------------------------------------
(* Sensor_Data.fetch_live_data.  An entity_id is kept split at its          *)
(* underscores: "sensor.multisensor_115_scd30_co2" is the parts             *)
(* <<"sensor.multisensor", "115", "scd30", "co2">>.                         *)

\* The "id" suffixes of multisensor_sensors_home_assistant, split the same way.
valid_suffixes ==
    { <<"ld2410", "detection", "distance">>, <<"tof", "distance">>,
      <<"bme680", "humidity">>, <<"bme680", "temperature">>, <<"scd30", "co2">>,
      <<"bme680", "iaq">>, <<"ltr390", "uv", "index">>, <<"microphone", "voltage">>,
      <<"microphone", "noise", "level">>, <<"bme680", "pressure">>,
      <<"ltr390", "light">>, <<"bme680", "gas", "resistance">> }

\* entity_id.endswith("_" + suffix)
ends_with(parts, suffix) ==
    /\ Len(parts) > Len(suffix)
    /\ SubSeq(parts, Len(parts) - Len(suffix) + 1, Len(parts)) = suffix

\* The filter that builds multisensor_entities.
is_multisensor_entity(parts) ==
    /\ Len(parts) >= 2
    /\ parts[1] = "sensor.multisensor"
    /\ \E suffix \in valid_suffixes : ends_with(parts, suffix)

\* sensor_id = "_".join(parts[0].split(".")[1:] + parts[1:2])
entity_sensor_id(parts) == "multisensor_" \o parts[2]

\* sensor_type_id = "_" + "_".join(parts[3:]), as its parts
entity_sensor_type_id(parts) == SubSeq(parts, 4, Len(parts))

\* target_id in sensor_details["id"]: "_" + target's parts joined occurs in the id.
\* It starts with an underscore, so it occurs where a part of the id starts; "_"
\* alone (no parts) occurs in every id.  No part used here is a proper prefix of
\* another, so the last part must match whole as well.
id_contains(target, id) ==
    \/ target = <<>>
    \/ \E j \in 1..Len(id) :
          /\ j + Len(target) - 1 <= Len(id)
          /\ SubSeq(id, j, j + Len(target) - 1) = target

\* The first sensor, in the dict's order from the i-th on, whose id contains
\* target_id; 0 when none does.
RECURSIVE first_matching_sensor(_, _)
first_matching_sensor(target_id, i) ==
    IF i > Len(multisensor_sensors) THEN 0
    ELSE IF id_contains(target_id, sensor_id[multisensor_sensors[i]]) THEN i
    ELSE first_matching_sensor(target_id, i + 1)

\* An update that writes the matching sensor of every room, whatever room was named.
update_sensor_value_every_room(d, target_sensor_id, target_id, new_value) ==
    IF first_matching_sensor(target_id, 1) = 0 THEN d
    ELSE [r \in DOMAIN d |->
             [d[r] EXCEPT !.current_value[multisensor_sensors[first_matching_sensor(target_id, 1)]]
                              = new_value]]

\* update_sensor_value(sensors_data, target_sensor_id, target_id, new_value)
update_sensor_value(d, target_sensor_id, target_id, new_value) ==
    IF target_sensor_id \in DOMAIN d
    THEN LET i == first_matching_sensor(target_id, 1)
         IN  IF i = 0 THEN d
             ELSE [d EXCEPT ![target_sensor_id].current_value[multisensor_sensors[i]] = new_value]
    ELSE d

\* One turn of the loop over all_states: an entity the filter drops changes nothing.
live_step(d, entity) ==
    IF is_multisensor_entity(entity.entity_id)
    THEN update_sensor_value(d, entity_sensor_id(entity.entity_id),
                             entity_sensor_type_id(entity.entity_id), entity.state)
    ELSE d

RECURSIVE live_from(_, _, _)
live_from(d, all_states, i) ==
    IF i > Len(all_states) THEN d
    ELSE live_from(live_step(d, all_states[i]), all_states, i + 1)

\* fetch_live_data given what get() does: it raises, or answers with response.ok
\* false (nothing is written), or answers with the entity states.
fetch_live_data(d, response) ==
    IF ~response.ok THEN Raised(response.exc)
    ELSE IF ~response.val.ok THEN Returned(d)
    ELSE Returned(live_from(d, response.val.all_states, 1))

-----------------------------------------------------------------------------
(* InfluxDB.get_historic_sensor_data.  A history entry (value, time) is the *)
(* record [value, time], time in minutes after 06:00 UTC of the day.        *)

\* The i-th point a query returns: ORDER BY time ASC, from 06:00 on.
db_point(sensor, i) == [value |-> Num(Tenths(20 + i)), time |-> 45 * (i - 1)]

\* A write that puts the point in the place of the history.
history_replace(history, point) == <<point>>

\* data_dict[entity_id]["sensors"][sensor]["history"].append((value, time))
history_append(history, point) == Append(history, point)

\* for point in points: history.append((value, time)), for n points
RECURSIVE append_points(_, _, _, _)
append_points(history, sensor, i, n) ==
    IF i > n THEN history
    ELSE append_points(history_append(history, db_point(sensor, i)), sensor, i + 1, n)

\* The two loops with every query answering n points.
historic_appended(d, n) ==
    [r \in DOMAIN d |->
        [d[r] EXCEPT !.history =
            [k \in SensorKinds |-> append_points(d[r].history[k], k, 1, n)]]]

\* get_historic_sensor_data given what the database does: InfluxDB() or a query
\* raises, or every query answers db.val points.
get_historic_sensor_data(d, db) ==
    IF ~db.ok THEN Raised(db.exc) ELSE Returned(historic_appended(d, db.val))

-----------------------------------------------------------------------------
(* populate_sensor_data                                                     *)

\* range(24): the synthetic timestamps 06:00 + 30 min * i.
NumSynthetic == 24

\* The range each sensor's random values are drawn from, in tenths.
synthetic_range ==
    "Temperature" :> <<180, 260>> @@ "Humidity" :> <<300, 700>> @@
    "CO2" :> <<4000, 10000>> @@ "Pressure" :> <<9500, 10500>> @@
    "Light" :> <<1000, 10000>> @@ "UV Index" :> <<0, 100>> @@
    "Gas Resistance" :> <<1000, 100000>> @@ "IAQ" :> <<0, 5000>> @@
    "Microphone Noise Level" :> <<200, 800>> @@ "Occupancy" :> <<0, 100>>

\* The draws modelled: every random value at the low end, or every one at the high end.
RandomDraws == {1, 2}

\* values: one random value per timestamp.
synthetic_values(sensor, draw) ==
    [i \in 1..NumSynthetic |-> Num(synthetic_range[sensor][draw])]

\* list(zip(values, timestamps))
synthetic_history(values) ==
    [i \in 1..NumSynthetic |-> [value |-> values[i], time |-> 30 * (i - 1)]]

\* One turn of the inner loop: current_value = values[-1], history = the zip.
populated_sensor(values) ==
    [current_value |-> values[NumSynthetic], history |-> synthetic_history(values)]

\* A fallback that leaves the Occupancy sensor out of each room.
populated_room_without_occupancy(sensors) ==
    [current_value |-> [k \in SensorKinds \ {"Occupancy"} |-> sensors[k].current_value],
     history |-> [k \in SensorKinds \ {"Occupancy"} |-> sensors[k].history]]

\* populate_sensor_data(data): every sensor's current_value and history replaced.
populated_room(sensors) ==
    [current_value |-> [k \in SensorKinds |-> sensors[k].current_value],
     history |-> [k \in SensorKinds |-> sensors[k].history]]

\* A fallback that replaces the data of the first room only.
populate_first_room_only(d, draw) ==
    [r \in DOMAIN d |->
        IF r = sensor_room_mapping[1]
        THEN populated_room([k \in SensorKinds |-> populated_sensor(synthetic_values(k, draw))])
        ELSE d[r]]

populate_sensor_data(d, draw) ==
    [r \in DOMAIN d |->
        populated_room([k \in SensorKinds |-> populated_sensor(synthetic_values(k, draw))])]

-----------------------------------------------------------------------------
(* Sensor_Data.update: the try block, then the except branch.               *)

\* How a try block ended: ok with the store d it leaves, or the step that raised
\* (failed), the room whose occupancy raised, and the store d as it stood then.
TryOk(d) == [ok |-> TRUE, d |-> d, failed |-> "", room |-> ""]
TryRaised(d, failed, room) == [ok |-> FALSE, d |-> d, failed |-> failed, room |-> room]

\* self.update_occupancy() and the end of the try block.
try_after_occupancy(occ) ==
    IF occ.ok THEN TryOk(occ.d) ELSE TryRaised(occ.d, "occupancy", occ.room)

\* self.influxDB.get_historic_sensor_data(self.data) and what follows it.
try_after_historic(d, hist) ==
    IF hist.ok THEN try_after_occupancy(update_occupancy(hist.val))
    ELSE TryRaised(d, "historic", "")

\* self.fetch_live_data() and what follows it.
try_after_live(d, live, db) ==
    IF live.ok THEN try_after_historic(live.val, get_historic_sensor_data(live.val, db))
    ELSE TryRaised(d, "live", "")

\* The try block of update() on store d, given what the two sources do.
try_update(d, response, db) == try_after_live(d, fetch_live_data(d, response), db)

-----------------------------------------------------------------------------
(* The estimator alone: Init draws a room and a CO2 current value, the      *)
(* action calls calculate_occupancy(room_id).                               *)

NotCalled == Raised("not called")

\* CO2 current values tried, in ppm.
Co2Levels == {0, 400, 550, 551, 951, 952, 1000, 1200, 2000}

\* What a CO2 sensor's current_value can hold: None at startup, a number (synthetic
\* data), a Home Assistant state string (numeric, 'unknown' or 'unavailable').
Co2Values ==
    {Num(Tenths(c)) : c \in Co2Levels} \cup {NumStr(Tenths(c) + 5) : c \in Co2Levels}
    \cup {None, Str("unknown"), Str("unavailable")}

NoInput == [room |-> "", co2 |-> None]

\* The keyword arguments tried: the defaults (18, 3600) and zero.
EmissionRates == {0, 18}
ElapsedSeconds == {0, 3600}

InitOccupancy ==
    /\ counter = PeopleCounter
    /\ occ_in \in [room : AllRooms, co2 : Co2Values,
                   emission_rate : EmissionRates, time_elapsed : ElapsedSeconds]
    /\ occ_out = NotCalled
    /\ warn_in = NoInput /\ warn_out = NotCalled
    /\ pred_in = NoInput /\ pred_out = NotCalled
    /\ StoreAtStartup
    /\ show_in = NoInput /\ show_out = NotCalled

CallCalculateOccupancy ==
    /\ occ_out = NotCalled
    /\ occ_out' = calculate_occupancy_with(occ_in.co2, room_volume[occ_in.room], 550,
                                           occ_in.emission_rate, occ_in.time_elapsed)
    /\ UNCHANGED <<counter, occ_in, warn_in, warn_out, pred_in, pred_out, show_in, show_out, store>>

NextOccupancy == CallCalculateOccupancy

SpecOccupancy == InitOccupancy /\ [][NextOccupancy]_vars

IsNumeric(v) == v.t \in {"num", "numstr"}

\* The estimate as the specification writes it, with the volume as stored:
\*   max(0, round(((co2 - 550) * volume / 1000) / (18 * (3600 / 3600)))),
\* that is (tenths - 5500) * volume_milli / (10 * 1000 * 1000 * 18).  Every stored
\* volume is area * 3.2, a multiple of 0.008, so both are divided by 8 exactly.
StatedEstimate(co2_tenths, volume_milli) ==
    Max(0, RoundHalfEven((co2_tenths - 5500) * (volume_milli \div 8), 10 * 1000 * 125 * 18))

\* Whether the call used the signature's defaults.
DefaultRates == occ_in.emission_rate = 18 /\ occ_in.time_elapsed = 3600

\* C4: for every numeric CO2 value and every room volume the estimate (with the
\* default emission rate and elapsed time) is
\* max(0, round(((co2 - 550) * volume / 1000) / 18)) with the volume exactly as stored.
C4_EstimateUsesStoredVolume ==
    (occ_out # NotCalled /\ IsNumeric(occ_in.co2) /\ DefaultRates) =>
        occ_out = Returned(StatedEstimate(occ_in.co2.n, room_volume[occ_in.room]))

\* C5: when the CO2 current value is unknown or absent the estimator returns 0
\* and does not fail.
C5_UnknownCo2ReturnsZero ==
    (occ_out # NotCalled /\ occ_in.co2 \in {None, Str("unknown")}) => occ_out = Returned(0)

\* C17: when the denominator emission_rate * (time_elapsed / 3600) is zero the
\* estimator returns 0 instead of failing with a division error.
C17_ZeroDenominatorReturnsZero ==
    (/\ occ_out # NotCalled
     /\ IsNumeric(occ_in.co2)
     /\ occ_in.emission_rate * occ_in.time_elapsed = 0) =>
        occ_out = Returned(0)

\* C18: for a room of volume 0 the estimator (with a non-zero emission rate and
\* elapsed time) returns 0 for every numeric CO2 value and raises no division error.
C18_ZeroVolumeReturnsZero ==
    (/\ occ_out # NotCalled
     /\ room_volume[occ_in.room] = 0
     /\ IsNumeric(occ_in.co2)
     /\ occ_in.emission_rate * occ_in.time_elapsed # 0) =>
        occ_out = Returned(0)

\* C18 witness: the Hallway (volume 0) at 2000.5 ppm was estimated at 0.
C18_Witness ==
    /\ occ_in.room \in AllRooms /\ room_volume[occ_in.room] = 0
    /\ occ_in.co2 = NumStr(20005) /\ DefaultRates
    /\ occ_out = Returned(0)

-----------------------------------------------------------------------------
(* Dashboard.check_for_warnings                                             *)

\* The warnings dict: per sensor its tiers, each (threshold, message).
warnings ==
    "Temperature" :>
        [too_low |-> <<18, "It's too cold to concentrate. Consider turning up the heat.">>,
         too_high |-> <<26, "It's too hot to concentrate. Consider opening a window.">>] @@
    "Humidity" :>
        [too_low |-> <<30, "The air is too dry. Consider increasing ventilation or opening a window.">>,
         too_high |-> <<60, "The air is too humid. Consider opening a window.">>] @@
    "CO2" :>
        [too_high |-> <<1000, "CO2 levels are high. Open a window for fresh air.">>] @@
    "IAQ" :>
        [too_high |-> <<100, "Indoor Air Quality is poor. Consider increasing ventilation or opening a window.">>] @@
    "UV Index" :>
        [too_high |-> <<6, "UV Index is high. Consider closing the blinds or staying out of direct sunlight.">>] @@
    "Microphone Noise Level" :>
        [too_high |-> <<80, "Noise levels are high. Consider reducing the noise or moving to a quieter space.">>] @@
    "Pressure" :>
        [too_low |-> <<980, "Atmospheric pressure is low. It might feel stuffy. Consider opening a window.">>,
         too_high |-> <<1030, "Atmospheric pressure is high. Consider opening a window to ventilate the room.">>] @@
    "Light" :>
        [too_low |-> <<50, "Light levels are too low. Consider turning on more lights.">>,
         too_high |-> <<1000, "Light levels are too bright. Consider adjusting the lighting.">>] @@
    "Gas Resistance" :>
        [too_high |-> <<1000, "Gas resistance is high. Open a window or ventilate the room.">>] @@
    "Occupancy" :>
        [too_high |-> <<10, "Too many people in the room. Consider moving to a less crowded room.">>]

\* BelowLow with the bound itself counted as too low (<= for <).
BelowLow_inclusive(sensor, n) ==
    "too_low" \in DOMAIN warnings[sensor] /\ n <= Tenths(warnings[sensor].too_low[1])

\* "<tier>" in warnings[sensor] and float(value) <cmp> warnings[sensor]["<tier>"][0]
BelowLow(sensor, n) ==
    "too_low" \in DOMAIN warnings[sensor] /\ n < Tenths(warnings[sensor].too_low[1])

AboveHigh(sensor, n) ==
    "too_high" \in DOMAIN warnings[sensor] /\ n > Tenths(warnings[sensor].too_high[1])

\* check_for_warnings without its test for the 'unknown' sentinel.
check_for_warnings_no_sentinel(sensor, value) ==
    LET f == ToFloat(value)
    IN  IF ~f.ok THEN Raised(f.exc)
        ELSE IF BelowLow(sensor, f.n)
        THEN Returned(<<warnings[sensor].too_low[2], FALSE>>)
        ELSE IF AboveHigh(sensor, f.n)
        THEN Returned(<<warnings[sensor].too_high[2], FALSE>>)
        ELSE Returned(<<sensor \o " value is within a comfortable range.", TRUE>>)

\* check_for_warnings(sensor, value, unit): the (message, in_range) it returns, or
\* the exception float(value) raises.  Every sensor of the table has a tier, so
\* float(value) is evaluated for each of them.
check_for_warnings(sensor, value) ==
    IF value = Str("unknown")
    THEN Returned(<<sensor \o " has no current value.", TRUE>>)
    ELSE IF sensor \in DOMAIN warnings
    THEN LET f == ToFloat(value)
         IN  IF ~f.ok THEN Raised(f.exc)
             ELSE IF BelowLow(sensor, f.n)
             THEN Returned(<<warnings[sensor].too_low[2], FALSE>>)
             ELSE IF AboveHigh(sensor, f.n)
             THEN Returned(<<warnings[sensor].too_high[2], FALSE>>)
             ELSE Returned(<<sensor \o " value is within a comfortable range.", TRUE>>)
    ELSE Returned(<<sensor \o " value is within a comfortable range.", TRUE>>)

-----------------------------------------------------------------------------
(* The threshold evaluation alone: Init draws a sensor and a value, the     *)
(* action calls check_for_warnings.                                         *)

\* Values tried, in tenths: each threshold of the table, a tenth below and above
\* it, zero and a value far below any floor.
WarnLevels ==
    UNION {{Tenths(b) - 1, Tenths(b), Tenths(b) + 1} :
              b \in {6, 10, 18, 26, 30, 50, 60, 80, 100, 980, 1000, 1030}}
    \cup {0, -100000}

WarnValues ==
    {Num(n) : n \in WarnLevels} \cup {NumStr(n) : n \in WarnLevels}
    \cup {None, Str("unknown"), Str("unavailable")}

InitWarnings ==
    /\ counter = PeopleCounter
    /\ warn_in \in [sensor : SensorKinds, value : WarnValues]
    /\ warn_out = NotCalled
    /\ occ_in = NoInput /\ occ_out = NotCalled
    /\ pred_in = NoInput /\ pred_out = NotCalled
    /\ StoreAtStartup
    /\ show_in = NoInput /\ show_out = NotCalled

CallCheckForWarnings ==
    /\ warn_out = NotCalled
    /\ warn_out' = check_for_warnings(warn_in.sensor, warn_in.value)
    /\ UNCHANGED <<counter, warn_in, occ_in, occ_out, pred_in, pred_out, show_in, show_out, store>>

NextWarnings == CallCheckForWarnings

SpecWarnings == InitWarnings /\ [][NextWarnings]_vars

\* The comfort table of the specification, in whole units: the too_low bound
\* (an empty tuple where the table has a dash) and the too_high bound.
ComfortTable ==
    "Temperature" :> [low |-> <<18>>, high |-> 26] @@
    "Humidity" :> [low |-> <<30>>, high |-> 60] @@
    "CO2" :> [low |-> <<>>, high |-> 1000] @@
    "IAQ" :> [low |-> <<>>, high |-> 100] @@
    "UV Index" :> [low |-> <<>>, high |-> 6] @@
    "Microphone Noise Level" :> [low |-> <<>>, high |-> 80] @@
    "Pressure" :> [low |-> <<980>>, high |-> 1030] @@
    "Light" :> [low |-> <<50>>, high |-> 1000] @@
    "Gas Resistance" :> [low |-> <<>>, high |-> 1000] @@
    "Occupancy" :> [low |-> <<>>, high |-> 10]

\* What the table asks of a numeric value n (tenths) of a sensor.
StatedVerdict(sensor, n) ==
    LET low == ComfortTable[sensor].low
        high == ComfortTable[sensor].high
    IN  IF low # <<>> /\ n < 10 * low[1] THEN <<warnings[sensor].too_low[2], FALSE>>
        ELSE IF n > 10 * high THEN <<warnings[sensor].too_high[2], FALSE>>
        ELSE <<sensor \o " value is within a comfortable range.", TRUE>>

\* C7: for every sensor of the comfort table and every numeric value the result is
\* the too_low message with in_range false exactly below an existing low bound,
\* else the too_high message with in_range false exactly above the high bound, else
\* the in-range message with true; a value on a bound is in range.
C7_ThresholdVerdict ==
    (warn_out # NotCalled /\ IsNumeric(warn_in.value)) =>
        warn_out = Returned(StatedVerdict(warn_in.sensor, warn_in.value.n))

\* C7 witness: 17.9 degrees was evaluated and reported as too cold.
C7_Witness ==
    /\ warn_in = [sensor |-> "Temperature", value |-> Num(179)]
    /\ warn_out = Returned(<<warnings["Temperature"].too_low[2], FALSE>>)

\* C8: for every sensor the 'unknown' sentinel yields ("<kind> has no current
\* value.", true): missing data is never out of range.
C8_UnknownIsInRange ==
    (warn_out # NotCalled /\ warn_in.value = Str("unknown")) =>
        warn_out = Returned(<<warn_in.sensor \o " has no current value.", TRUE>>)

\* C8 witness: CO2 was evaluated with the sentinel.
C8_Witness ==
    /\ warn_in = [sensor |-> "CO2", value |-> Str("unknown")]
    /\ warn_out = Returned(<<"CO2 has no current value.", TRUE>>)

\* C22: for every sensor of the table, a value that is neither 'unknown' nor
\* parseable as a number (None included) makes check_for_warnings fail in the
\* conversion of the value; it returns no (message, in_range) for it.
C22_MalformedValueFails ==
    (/\ warn_out # NotCalled
     /\ warn_in.sensor \in DOMAIN warnings
     /\ warn_in.value # Str("unknown")
     /\ ~IsNumeric(warn_in.value)) =>
        (~warn_out.ok /\ warn_out.exc \in {"ValueError", "TypeError"})

\* C22 witness: the startup value None was evaluated for CO2 and the call raised.
C22_Witness ==
    /\ warn_in.sensor = "CO2" /\ warn_in.value = None
    /\ warn_out = Raised("TypeError")

-----------------------------------------------------------------------------
(* Dashboard.predict_data: the points the regression is fitted over.        *)
(* timestamps and values are Python lists, here sequences: Python's index i *)
(* is position i + 1.  Times are in minutes.                                *)

\* [x[i] for i in indices]
Pick(x, indices) == [j \in 1..Len(indices) |-> x[indices[j]]]

\* [i for i, ts in enumerate(timestamps) if ts >= cutoff], over the first n points.
RECURSIVE indices_from(_, _, _)
indices_from(timestamps, cutoff, n) ==
    IF n = 0 THEN <<>>
    ELSE IF timestamps[n] >= cutoff THEN Append(indices_from(timestamps, cutoff, n - 1), n)
    ELSE indices_from(timestamps, cutoff, n - 1)

\* recent_indices with the cut-off itself left out (ts > two_hours_ago).
recent_indices_exclusive(sensor, timestamps) ==
    LET two_hours_ago == timestamps[Len(timestamps)] - 120
    IN  IF sensor = "Light" THEN [i \in 1..Len(timestamps) |-> i]
        ELSE indices_from(timestamps, two_hours_ago + 1, Len(timestamps))

\* recent_indices without the special case for Light.
recent_indices_light_windowed(sensor, timestamps) ==
    indices_from(timestamps, timestamps[Len(timestamps)] - 120, Len(timestamps))

\* two_hours_ago = timestamps[-1] - timedelta(hours=2)
\* recent_indices = [i for i, ts in enumerate(timestamps) if ts >= two_hours_ago],
\* and every index when sensor == "Light".
recent_indices(sensor, timestamps) ==
    LET two_hours_ago == timestamps[Len(timestamps)] - 120
    IN  IF sensor = "Light" THEN [i \in 1..Len(timestamps) |-> i]
        ELSE indices_from(timestamps, two_hours_ago, Len(timestamps))

\* values[i] is strictly above both neighbours or strictly below both (i a Python index).
is_turning_point(values, i) ==
    \/ values[i + 1] > values[i] /\ values[i + 1] > values[i + 2]
    \/ values[i + 1] < values[i] /\ values[i + 1] < values[i + 2]

\* for i in range(len(values) - 2, 0, -1): the first turning point met from Python
\* index i downward, 0 when the loop ends without one (the code's None: the test
\* "if turning_point_index:" takes 0 and None alike, and the loop never reaches 0).
RECURSIVE scan_turning_point(_, _)
scan_turning_point(values, i) ==
    IF i < 1 THEN 0
    ELSE IF is_turning_point(values, i) THEN i
    ELSE scan_turning_point(values, i - 1)

\* A scan that runs upward from index 1 and so stops at the earliest turning point.
RECURSIVE scan_turning_point_up(_, _)
scan_turning_point_up(values, i) ==
    IF i > Len(values) - 2 THEN 0
    ELSE IF is_turning_point(values, i) THEN i
    ELSE scan_turning_point_up(values, i + 1)

turning_point_index_earliest(sensor, values) ==
    IF sensor \notin {"Microphone Noise Level", "Occupancy", "Light"}
    THEN scan_turning_point_up(values, 1)
    ELSE 0

\* turning_point_index: the scan, skipped for three sensors.
turning_point_index(sensor, values) ==
    IF sensor \notin {"Microphone Noise Level", "Occupancy", "Light"}
    THEN scan_turning_point(values, Len(values) - 2)
    ELSE 0

\* recent_timestamps and recent_values as handed to stats.linregress.
fit_window(sensor, timestamps, values) ==
    LET idx == recent_indices(sensor, timestamps)
        tp == turning_point_index(sensor, values)
    IN  IF tp # 0
        THEN [timestamps |-> SubSeq(timestamps, tp + 1, Len(timestamps)),
              values |-> SubSeq(values, tp + 1, Len(values))]
        ELSE [timestamps |-> Pick(timestamps, idx), values |-> Pick(values, idx)]

-----------------------------------------------------------------------------
(* The window selection alone: Init draws a sensor and a series of at least *)
(* two points (show_current_data calls predict_data only then), the action  *)
(* calls predict_data.                                                      *)

\* The longest series tried.
MaxLen == 4

\* Times (minutes) and values a point of the series is drawn from.  60 is exactly
\* two hours before 180.
TimeGrid == {0, 60, 180}
ValueGrid == {0, 1, 2}

SeriesOver(S) == UNION {[1..n -> S] : n \in 2..MaxLen}

InitPredict ==
    /\ counter = PeopleCounter
    /\ \E sensor \in SensorKinds, ts \in SeriesOver(TimeGrid), vs \in SeriesOver(ValueGrid) :
          /\ Len(ts) = Len(vs)
          /\ pred_in = [sensor |-> sensor, timestamps |-> ts, values |-> vs]
    /\ pred_out = NotCalled
    /\ occ_in = NoInput /\ occ_out = NotCalled
    /\ warn_in = NoInput /\ warn_out = NotCalled
    /\ StoreAtStartup
    /\ show_in = NoInput /\ show_out = NotCalled

CallPredictData ==
    /\ pred_out = NotCalled
    /\ pred_out' = Returned(fit_window(pred_in.sensor, pred_in.timestamps, pred_in.values))
    /\ UNCHANGED <<counter, pred_in, occ_in, occ_out, warn_in, warn_out, show_in, show_out, store>>

NextPredict == CallPredictData

SpecPredict == InitPredict /\ [][NextPredict]_vars

\* Python indices i, 1 <= i <= n - 2, whose value is a strict local extremum.
Extrema(values) ==
    {i \in 1..(Len(values) - 2) :
        \/ values[i + 1] > values[i] /\ values[i + 1] > values[i + 2]
        \/ values[i + 1] < values[i] /\ values[i + 1] < values[i + 2]}

Largest(S) == CHOOSE k \in S : \A j \in S : j <= k

\* x[k:] for a Python index k.
From(x, k) == [j \in 1..(Len(x) - k) |-> x[j + k]]

\* The points of the series at or after (last timestamp - 2 hours), in order.
RECURSIVE LastTwoHours(_, _, _)
LastTwoHours(timestamps, x, n) ==
    IF n = 0 THEN <<>>
    ELSE IF timestamps[n] >= timestamps[Len(timestamps)] - 120
         THEN Append(LastTwoHours(timestamps, x, n - 1), x[n])
         ELSE LastTwoHours(timestamps, x, n - 1)

\* C9: for a sensor other than Microphone Noise Level, Occupancy and Light whose
\* series has a strict interior extremum, the fit is over exactly values[k:] and
\* timestamps[k:], k the largest such index; the 2-hour window plays no part.
C9_FitFromLastTurningPoint ==
    (/\ pred_out # NotCalled
     /\ pred_in.sensor \notin {"Microphone Noise Level", "Occupancy", "Light"}
     /\ Extrema(pred_in.values) # {}) =>
        LET k == Largest(Extrema(pred_in.values))
        IN  pred_out = Returned([timestamps |-> From(pred_in.timestamps, k),
                                 values |-> From(pred_in.values, k)])

\* C9 witness: a CO2 series with two turning points (indices 1 and 2), all of it
\* inside the last two hours, was fitted from index 2.
C9_Witness ==
    /\ pred_in = [sensor |-> "CO2", timestamps |-> <<60, 60, 180, 180>>,
                  values |-> <<0, 2, 1, 2>>]
    /\ pred_out = Returned([timestamps |-> <<180, 180>>, values |-> <<1, 2>>])

\* C10: the fit is over exactly the points with timestamp >= last - 2 hours, always
\* for Microphone Noise Level and Occupancy, and for any other sensor except Light
\* when the series has no strict interior extremum.
C10_FitOverLastTwoHours ==
    (/\ pred_out # NotCalled
     /\ \/ pred_in.sensor \in {"Microphone Noise Level", "Occupancy"}
        \/ pred_in.sensor # "Light" /\ Extrema(pred_in.values) = {}) =>
        pred_out = Returned(
            [timestamps |-> LastTwoHours(pred_in.timestamps, pred_in.timestamps,
                                         Len(pred_in.timestamps)),
             values |-> LastTwoHours(pred_in.timestamps, pred_in.values,
                                     Len(pred_in.values))])

\* C10 witness: an Occupancy series with a turning point at index 1 was fitted over
\* its last two hours, the point at the cut-off included and the older one dropped.
C10_Witness ==
    /\ pred_in = [sensor |-> "Occupancy", timestamps |-> <<0, 60, 180>>,
                  values |-> <<0, 2, 1>>]
    /\ pred_out = Returned([timestamps |-> <<60, 180>>, values |-> <<2, 1>>])

\* C11: for Light the fit is over the whole series passed in, whatever its time span
\* and whether or not it has local extrema.
C11_LightFitsWholeSeries ==
    (pred_out # NotCalled /\ pred_in.sensor = "Light") =>
        pred_out = Returned([timestamps |-> pred_in.timestamps, values |-> pred_in.values])

\* C11 witness: a Light series spanning three hours with a turning point at index 1
\* was fitted whole.
C11_Witness ==
    /\ pred_in = [sensor |-> "Light", timestamps |-> <<0, 60, 180>>, values |-> <<0, 2, 1>>]
    /\ pred_out = Returned([timestamps |-> <<0, 60, 180>>, values |-> <<0, 2, 1>>])

\* C27: called with at least 2 points whose timestamps ascend, the forecaster fits
\* its line over a window of at least 2 points.
C27_WindowHasTwoPoints ==
    (/\ pred_out # NotCalled
     /\ Len(pred_in.timestamps) >= 2
     /\ \A i \in 1..(Len(pred_in.timestamps) - 1) :
           pred_in.timestamps[i] < pred_in.timestamps[i + 1]) =>
        Len(pred_out.val.timestamps) >= 2

-----------------------------------------------------------------------------
(* Dashboard.predict_data: the regression and the future points.  The clock *)
(* datetime.now() is in whole seconds and the timestamps stay in minutes,   *)
(* both counted from 06:00 of the day.  A prediction is kept as the exact   *)
(* fraction num / den (den > 0) that the float computation approximates;    *)
(* den = 0 marks nan.                                                       *)

RECURSIVE SumOf(_, _)
SumOf(x, n) == IF n = 0 THEN 0 ELSE SumOf(x, n - 1) + x[n]

Products(x, y) == [j \in 1..Len(x) |-> x[j] * y[j]]

\* time_numbers = [(ts - recent_timestamps[0]).total_seconds() ...], here in minutes.
time_numbers(recent_timestamps) ==
    [j \in 1..Len(recent_timestamps) |-> recent_timestamps[j] - recent_timestamps[1]]

NaNFit == [nan |-> TRUE, n |-> 0, sx |-> 0, sy |-> 0, a |-> 0, d |-> 0]

\* stats.linregress(x, y), of which only slope and intercept are used:
\*   slope = a / d, intercept = (sy - slope * sx) / n,
\*   a = n * sum(x * y) - sum(x) * sum(y), d = n * sum(x * x) - sum(x) ** 2.
\* When all x are identical (d = 0) scipy raises ValueError if there is more than
\* one point, and for a single point divides 0.0 by 0.0: slope and intercept are nan.
linregress(x, y) ==
    LET n == Len(x)
        sx == SumOf(x, n)
        sy == SumOf(y, n)
        d == n * SumOf(Products(x, x), n) - sx * sx
        a == n * SumOf(Products(x, y), n) - sx * sy
    IN  IF d = 0
        THEN IF n > 1 THEN Raised("ValueError") ELSE Returned(NaNFit)
        ELSE Returned([nan |-> FALSE, n |-> n, sx |-> sx, sy |-> sy, a |-> a, d |-> d])

NaN == [num |-> 0, den |-> 0]
Zero == [num |-> 0, den |-> 1]

\* myfunc(x) = slope * x + intercept for x in seconds after recent_timestamps[0]:
\*   a * (x / 60) / d + (sy - a * sx / d) / n
\*     = (a * (n * x - 60 * sx) + 60 * sy * d) / (60 * n * d).
myfunc(fit, x) ==
    IF fit.nan THEN NaN
    ELSE [num |-> fit.a * (fit.n * x - 60 * fit.sx) + 60 * fit.sy * fit.d,
          den |-> 60 * fit.n * fit.d]

\* The predictions as they would be without the clamp.
max_0_unclamped(p) == p

\* max(0, p): p when p > 0, else the 0 (nan > 0 is false, so nan gives 0).
max_0(p) == IF p.den # 0 /\ p.num > 0 THEN p ELSE Zero

\* The clock with only its seconds cut off.
nearest_quarter_hour_minute(current_time) == current_time - (current_time % 60)

\* nearest_quarter_hour = current_time - timedelta(minutes=current_time.minute % 15,
\*                                                 seconds=current_time.second, ...)
nearest_quarter_hour(current_time) ==
    LET minute == (current_time \div 60) % 60
        second == current_time % 60
    IN  current_time - ((minute % 15) * 60 + second)

\* range(0, 25): the number of future times.
NumFuture == 25

\* future_times = [nearest_quarter_hour + timedelta(minutes=15 * i) for i in range(0, 25)]
future_times(current_time) ==
    [i \in 1..NumFuture |-> nearest_quarter_hour(current_time) + 15 * 60 * (i - 1)]

\* predictions: myfunc at (ft - recent_timestamps[0]).total_seconds(), clamped.
predictions(fit, first_timestamp, times) ==
    [i \in 1..Len(times) |-> max_0(myfunc(fit, times[i] - 60 * first_timestamp))]

\* predict_data(room, sensor, unit, timestamps, values) called when the clock
\* reads current_time: (future_times, predictions), or what linregress raises.
predict_data(sensor, timestamps, values, current_time) ==
    LET w == fit_window(sensor, timestamps, values)
        fit == linregress(time_numbers(w.timestamps), w.values)
    IN  IF ~fit.ok THEN Raised(fit.exc)
        ELSE Returned([future_times |-> future_times(current_time),
                       predictions |-> predictions(fit.val, w.timestamps[1],
                                                   future_times(current_time))])

-----------------------------------------------------------------------------
(* Dashboard.show_current_data for the selected room: the sensor's current  *)
(* value and history come from the store, the clock from datetime.now().    *)

\* A history entry that passes every timestamp, future or not.
not_after_always(ts, current_time) == TRUE

\* ts <= current_time
not_after(ts, current_time) == ts * 60 <= current_time

\* The loop over zip(timestamps_all, values_all): x's entries, of the first n,
\* whose timestamp passes the test.
RECURSIVE kept(_, _, _, _)
kept(timestamps_all, x, current_time, n) ==
    IF n = 0 THEN <<>>
    ELSE IF not_after(timestamps_all[n], current_time)
         THEN Append(kept(timestamps_all, x, current_time, n - 1), x[n])
         ELSE kept(timestamps_all, x, current_time, n - 1)

\* timestamps and values after the filter.
filtered(timestamps_all, values_all, current_time) ==
    [timestamps |-> kept(timestamps_all, timestamps_all, current_time, Len(timestamps_all)),
     values |-> kept(timestamps_all, values_all, current_time, Len(values_all))]

NoSeries == [timestamps |-> <<>>, values |-> <<>>]

\* The metrics of lines 321-344: whether "current <sensor>" and "<sensor> in 15
\* minutes" were shown.
NoMetrics == [current |-> FALSE, in_15_minutes |-> FALSE]

\* What follows the forecast: how the call ends and which graph method it calls with
\* which series.
\*   - predict_data raised: nothing catches it;
\*   - Occupancy, or a current value of None: the block with the metrics and the
\*     graph is skipped;
\*   - 'unknown': value stays the string and value < ideal_values[sensor] raises
\*     TypeError; any other non-numeric string fails in float();
\*   - Microphone Noise Level, or no predictions: self.display_historyic_graph, a
\*     name the class does not define (its method is display_historical_graph);
\*   - else display_combined_graph.
show_ending(sensor, current_value, series, forecast) ==
    LET quiet(outcome) == [outcome |-> outcome, graph |-> "", graph_args |-> NoSeries]
        has_predictions == forecast # NotCalled
    IN  IF forecast # NotCalled /\ ~forecast.ok THEN quiet(Raised(forecast.exc))
        ELSE IF sensor = "Occupancy" \/ current_value = None THEN quiet(Returned("shown"))
        ELSE IF current_value = Str("unknown") THEN quiet(Raised("TypeError"))
        ELSE IF ~ToFloat(current_value).ok THEN quiet(Raised(ToFloat(current_value).exc))
        ELSE IF sensor = "Microphone Noise Level" \/ ~has_predictions
        THEN [outcome |-> Raised("AttributeError"), graph |-> "display_historyic_graph",
              graph_args |-> series]
        ELSE [outcome |-> Returned("shown"), graph |-> "display_combined_graph",
              graph_args |-> series]

\* The metrics shown on the way: both col.metric calls come before the wait of line
\* 358 and are reached only if nothing raised before them.
show_metrics(sensor, current_value, series, forecast) ==
    IF show_ending(sensor, current_value, series, forecast).graph = "" THEN NoMetrics
    ELSE [current |-> TRUE, in_15_minutes |-> forecast # NotCalled]

\* show_current_data(sensor) from its first line to its return or raise: what it
\* read from the store, the series after the filter, whether predict_data was
\* called, with what, on which window, at what clock and with what result, the
\* metrics and the ending.  current_time is the clock read at line 303, predict_time
\* the clock predict_data reads at line 764.
show_current_data(sensor, current_value, timestamps_all, values_all, current_time, predict_time) ==
    LET series == filtered(timestamps_all, values_all, current_time)
        called == Len(series.timestamps) > 1
        forecast == IF called
                    THEN predict_data(sensor, series.timestamps, series.values, predict_time)
                    ELSE NotCalled
    IN  [pc |-> "done",
         read |-> [current_value |-> current_value, timestamps |-> timestamps_all,
                   values |-> values_all],
         series |-> series,
         called |-> called,
         predict_args |-> IF called THEN series ELSE NoSeries,
         predict_now |-> IF called THEN predict_time ELSE 0,
         window |-> IF called THEN fit_window(sensor, series.timestamps, series.values)
                    ELSE NoSeries,
         forecast |-> forecast,
         metrics |-> show_metrics(sensor, current_value, series, forecast),
         ending |-> show_ending(sensor, current_value, series, forecast)]

\* The longest history shown.
MaxHist == 3

\* Sensors shown: one that takes every branch of predict_data.
ShownSensors == {"CO2", "Light", "Microphone Noise Level", "Occupancy"}
\* Current values: None, a live reading, 'unknown'.
ShownValues == {None, NumStr(215), Str("unknown")}
\* History timestamps (minutes) and values.
ShowTimes == {0, 120, 180}
ShowValues == {0, 2}
\* The clock: 09:05:07 and 10:00:00, in seconds after 06:00.
Clocks == {185 * 60 + 7, 240 * 60}
\* The clock when show_current_data reads it: 08:59:59 (the entry of 09:00 lies in
\* the future), 09:00:00 and 09:05:07.
ShowClocks == {179 * 60 + 59, 180 * 60, 185 * 60 + 7}
\* What the clock may read at line 764 when it read now at line 303: the same second
\* or the next one (nothing waits between the two reads).
later_reads(now) == {t \in ShowClocks : now <= t /\ t <= now + 1}

\* What another thread writes into the store while the call waits.
WrittenValue == NumStr(990)
WrittenEntry == [time |-> 150, value |-> 2]

HistoryOver(S) == UNION {[1..n -> S] : n \in 0..MaxHist}

InitShow ==
    /\ counter = PeopleCounter
    /\ \E sensor \in ShownSensors, current_value \in ShownValues, now \in ShowClocks,
          ts \in HistoryOver(ShowTimes), vs \in HistoryOver(ShowValues) :
          /\ Len(ts) = Len(vs)
          /\ show_in = [sensor |-> sensor, current_value |-> current_value,
                        timestamps |-> ts, values |-> vs, now |-> now]
    /\ show_out = NotCalled
    /\ occ_in = NoInput /\ occ_out = NotCalled
    /\ warn_in = NoInput /\ warn_out = NotCalled
    /\ pred_in = NoInput /\ pred_out = NotCalled
    /\ data = create_sensor_dict
    /\ pc = "idle"
    /\ job = NoJob
    /\ ticks = 0
    /\ last = NoTick
    /\ fetched = create_sensor_dict
    /\ before = create_sensor_dict
    /\ after = create_sensor_dict
    /\ snap = NoSnap

\* The ending while the call has not got there.
Pending == [outcome |-> NotCalled, graph |-> "", graph_args |-> NoSeries]

\* Lines 249-355, which run without a wait: the store and the clock are read, the
\* series is filtered, predict_data is called if more than one entry is left (it
\* reads the clock again), the metrics and the warnings are shown.  The call ends
\* here if something raised or the block of the metrics is skipped; else it goes on
\* to stream_sensor_info (line 358), which sleeps between the words it writes.
ShowMetrics ==
    /\ show_out = NotCalled
    /\ \E predict_time \in later_reads(show_in.now) :
          \E whole \in {show_current_data(show_in.sensor, show_in.current_value,
                                          show_in.timestamps, show_in.values,
                                          show_in.now, predict_time)} :
              show_out' = IF whole.ending.graph = "" THEN whole
                          ELSE [whole EXCEPT !.pc = "stream", !.ending = Pending]
    /\ UNCHANGED <<counter, show_in, occ_in, occ_out, warn_in, warn_out, pred_in, pred_out, store>>

\* Another thread writes the sensor's stored data while the call waits in
\* stream_sensor_info: a new current_value (sensor_data.py line 138) or one more
\* history entry (influx_db_data.py line 131).  Here at most one write per call.
StoreWrittenMeanwhile ==
    /\ show_out # NotCalled /\ show_out.pc \in {"stream", "stream_more"}
    /\ show_in.current_value = show_out.read.current_value
    /\ show_in.timestamps = show_out.read.timestamps
    /\ \/ show_in' = [show_in EXCEPT !.current_value = WrittenValue]
       \/ show_in' = [show_in EXCEPT !.timestamps = Append(@, WrittenEntry.time),
                                     !.values = Append(@, WrittenEntry.value)]
    /\ UNCHANGED <<counter, show_out, occ_in, occ_out, warn_in, warn_out, pred_in, pred_out, store>>

\* Lines 361-367, after the wait: the gauge and the graph, drawn from what the call
\* read at its start.  display_historyic_graph raises; after display_combined_graph
\* the call goes on to the second stream_sensor_info (line 370).
ShowGraph ==
    /\ show_out # NotCalled /\ show_out.pc = "stream"
    /\ \E ending \in {show_ending(show_in.sensor, show_out.read.current_value,
                                  show_out.series, show_out.forecast)} :
          show_out' = IF ending.outcome.ok
                      THEN [show_out EXCEPT !.pc = "stream_more",
                                            !.ending = [ending EXCEPT !.outcome = NotCalled]]
                      ELSE [show_out EXCEPT !.pc = "done", !.ending = ending]
    /\ UNCHANGED <<counter, show_in, occ_in, occ_out, warn_in, warn_out, pred_in, pred_out, store>>

\* Line 370: the second stream_sensor_info has written its words; the call returns.
ShowReturns ==
    /\ show_out # NotCalled /\ show_out.pc = "stream_more"
    /\ show_out' = [show_out EXCEPT !.pc = "done", !.ending.outcome = Returned("shown")]
    /\ UNCHANGED <<counter, show_in, occ_in, occ_out, warn_in, warn_out, pred_in, pred_out, store>>

NextShow == ShowMetrics \/ StoreWrittenMeanwhile \/ ShowGraph \/ ShowReturns

SpecShow == InitShow /\ [][NextShow]_vars

\* show_current_data has returned or raised.
ShowDone == show_out # NotCalled /\ show_out.pc = "done"

\* The call step by step ends as the call taken whole, on what it read when it began
\* and the two clock readings, whatever was written to the store meanwhile.
ShowEndsAsWhole ==
    ShowDone =>
        show_out = show_current_data(show_in.sensor, show_out.read.current_value,
                                     show_out.read.timestamps, show_out.read.values,
                                     show_in.now,
                                     IF show_out.called THEN show_out.predict_now
                                     ELSE show_in.now)

\* Whether show_current_data called predict_data and it returned.
Forecasted == show_out # NotCalled /\ show_out.called /\ show_out.forecast.ok

\* C12: every successful forecast returns exactly 25 future timestamps q + 15 min * i,
\* i = 0..24 in that order, q the clock (as predict_data reads it) floored to the
\* quarter hour (a multiple of 15 minutes with q <= now < q + 15 minutes), and
\* exactly 25 predicted values.
C12_TwentyFiveQuarterHours ==
    Forecasted =>
        /\ Len(show_out.forecast.val.future_times) = 25
        /\ Len(show_out.forecast.val.predictions) = 25
        /\ \E q \in (show_out.predict_now - 899)..show_out.predict_now :
              /\ q % 900 = 0
              /\ \A i \in 0..24 : show_out.forecast.val.future_times[i + 1] = q + 900 * i

\* C12 witness: a forecast made at 09:05:07 starts at 09:00:00.
C12_Witness ==
    /\ Forecasted
    /\ show_out.predict_now = 185 * 60 + 7
    /\ show_out.forecast.val.future_times[1] = 180 * 60

\* The fitted line at the i-th future time, before the clamp.
LineAt(i) ==
    myfunc(linregress(time_numbers(show_out.window.timestamps), show_out.window.values).val,
           show_out.forecast.val.future_times[i] - 60 * show_out.window.timestamps[1])

\* C13: every predicted value returned is >= 0, and a prediction the fitted line puts
\* below zero is returned as exactly 0.
C13_PredictionsNotNegative ==
    Forecasted =>
        \A i \in 1..Len(show_out.forecast.val.predictions) :
            /\ show_out.forecast.val.predictions[i].den > 0
            /\ show_out.forecast.val.predictions[i].num >= 0
            /\ (LineAt(i).den > 0 /\ LineAt(i).num < 0) =>
                  show_out.forecast.val.predictions[i] = Zero

\* C13 witness: a falling line that is still positive at the first future time and
\* below zero at the last one; the last prediction is 0, the first is not.
C13_Witness ==
    /\ Forecasted
    /\ LineAt(1).den > 0 /\ LineAt(1).num > 0
    /\ LineAt(25).den > 0 /\ LineAt(25).num < 0
    /\ show_out.forecast.val.predictions[1].num > 0
    /\ show_out.forecast.val.predictions[25] = Zero

\* The distinct timestamps of a series.
Instants(timestamps) == {timestamps[j] : j \in 1..Len(timestamps)}

\* C14: when the window selected has fewer than 2 distinct timestamps the forecaster
\* fails, and show_current_data takes it as no prediction: it shows none and completes.
\* (Stated for a current value that is a reading or None.)
C14_DegenerateFitIsSkipped ==
    (/\ ShowDone
     /\ show_out.read.current_value # Str("unknown")
     /\ show_out.called
     /\ Cardinality(Instants(show_out.window.timestamps)) < 2) =>
        /\ ~show_out.forecast.ok
        /\ show_out.ending.outcome.ok
        /\ ~show_out.metrics.in_15_minutes
        /\ show_out.ending.graph # "display_combined_graph"

\* C15: when fewer than 2 points are left after the filter show_current_data does not
\* call the forecaster and completes without raising an error.  (Stated for a current
\* value that is a reading or None.)
C15_FewPointsNoError ==
    (/\ ShowDone
     /\ show_out.read.current_value # Str("unknown")
     /\ Len(show_out.series.timestamps) < 2) =>
        /\ ~show_out.called
        /\ show_out.ending.outcome.ok

\* The positions of the history the call read whose timestamp is not after the
\* clock of line 303, ascending.
PositionsUpToNow ==
    SelectSeq([j \in 1..Len(show_out.read.timestamps) |-> j],
              LAMBDA j : show_out.read.timestamps[j] * 60 <= show_in.now)

\* The history entries timestamped <= now, in their original order.
UpToNow ==
    [timestamps |-> [j \in 1..Len(PositionsUpToNow) |->
                        show_out.read.timestamps[PositionsUpToNow[j]]],
     values |-> [j \in 1..Len(PositionsUpToNow) |->
                    show_out.read.values[PositionsUpToNow[j]]]]

\* C16: the series passed to the forecaster and to the graphs is exactly the history
\* entries timestamped <= now, in their original order.
C16_NoFutureEntryPassedOn ==
    show_out # NotCalled =>
        /\ show_out.series = UpToNow
        /\ show_out.called => show_out.predict_args = UpToNow
        /\ show_out.ending.graph # "" => show_out.ending.graph_args = UpToNow

\* C16 witness: at 08:59:59 a history whose middle entry, of 09:00, lies in the
\* future was passed to the forecaster and, after the wait, to the combined graph
\* without that entry.
C16_Witness ==
    /\ show_in.now = 179 * 60 + 59
    /\ show_out # NotCalled
    /\ show_out.read.timestamps = <<0, 180, 120>> /\ show_out.read.values = <<0, 2, 2>>
    /\ show_out.predict_args = [timestamps |-> <<0, 120>>, values |-> <<0, 2>>]
    /\ show_out.ending.graph = "display_combined_graph"
    /\ show_out.ending.graph_args = [timestamps |-> <<0, 120>>, values |-> <<0, 2>>]

\* The prediction under the label "<sensor> in 15 minutes", also the one checked for
\* the "In 15 minutes" warning: predictions[0], which predict_data made for
\* future_times[0].
in_15_minutes(forecast) ==
    [value |-> forecast.val.predictions[1], instant |-> forecast.val.future_times[1]]

\* C26: the prediction shown as "in 15 minutes" is the forecast for an instant later
\* than now, the clock as predict_data read it.
C26_ShownPredictionIsAhead ==
    (show_out # NotCalled /\ show_out.metrics.in_15_minutes) =>
        in_15_minutes(show_out.forecast).instant > show_out.predict_now

\* C24: showing a sensor other than Occupancy whose current value is 'unknown'
\* completes without an error.
C24_UnknownIsShown ==
    (/\ ShowDone
     /\ show_in.sensor # "Occupancy"
     /\ show_out.read.current_value = Str("unknown")) => show_out.ending.outcome.ok

-----------------------------------------------------------------------------
(* The store over time.  Sensor_Data.__init__ runs update() before the      *)
(* object is returned and before any thread exists: that call is taken      *)
(* whole.  It then starts the refresh thread, whose update() runs one store *)
(* write at a time, with its waits on the live source and on the database   *)
(* between the writes, and which sleeps after each update().                *)
(* pc is "idle" until the thread is started; then "update" (about to call   *)
(* self.update()), "live", "historic", "occupancy" or "except" (inside      *)
(* update()) or "sleep" (in time.sleep(60)).                                *)

\* update() calls in a run.
MaxTicks == 2
\* Points one query of the historical source answers.
MaxPoints == 2

Entity(room_number, suffix, state) ==
    [entity_id |-> <<"sensor.multisensor", room_number>> \o suffix, state |-> state]

\* Entity states the live source may report, in the order it lists them: CO2 of the
\* first two rooms (a reading, then 'unknown' for the second room) and a temperature.
LiveEntities ==
    << Entity("115", <<"scd30", "co2">>, NumStr(9515)),
       Entity("108", <<"scd30", "co2">>, NumStr(12005)),
       Entity("108", <<"scd30", "co2">>, Str("unknown")),
       Entity("115", <<"bme680", "temperature">>, NumStr(215)) >>

\* The entities of the first n whose position is in S, in order.
RECURSIVE listed(_, _)
listed(S, n) ==
    IF n = 0 THEN <<>>
    ELSE IF n \in S THEN Append(listed(S, n - 1), LiveEntities[n])
    ELSE listed(S, n - 1)

\* What get() does: raises, answers not ok, or answers ok with some of the entities.
Responses ==
    {Raised("ConnectionError"), Returned([ok |-> FALSE, all_states |-> <<>>])}
    \cup {Returned([ok |-> TRUE, all_states |-> listed(S, Len(LiveEntities))]) :
            S \in SUBSET (1..Len(LiveEntities))}

\* What the historical source does: raises, or answers every query with n points.
DbAnswers == {Raised("ConnectionError")} \cup {Returned(n) : n \in 0..MaxPoints}

InitStore ==
    /\ counter = PeopleCounter
    /\ StoreAtStartup
    /\ show_in = NoInput /\ show_out = NotCalled
    /\ occ_in = NoInput /\ occ_out = NotCalled
    /\ warn_in = NoInput /\ warn_out = NotCalled
    /\ pred_in = NoInput /\ pred_out = NotCalled

\* No update() is running: the constructor has not called it yet or has returned
\* from it, or the thread is between two calls.
AtRest == pc \in {"idle", "update", "sleep"}

\* Sensor_Data.__init__: self.update(), from its first line to its return, the
\* sources answering with one of responses and one of answers.
constructor_update(responses, answers) ==
    /\ pc = "idle"
    /\ ticks = 0
    /\ \E response \in responses, db \in answers :
          \E try \in {try_update(data, response, db)} :
              IF try.ok
              THEN /\ data' = try.d
                   /\ last' = [outcome |-> "ok", failed |-> "", room |-> ""]
                   /\ fetched' = create_sensor_dict
              ELSE /\ \E draw \in RandomDraws : data' = populate_sensor_data(data, draw)
                   /\ last' = [outcome |-> "fallback", failed |-> try.failed, room |-> try.room]
                   /\ fetched' = IF try.failed = "occupancy" THEN try.d ELSE create_sensor_dict
    /\ before' = data
    /\ after' = data'
    /\ ticks' = ticks + 1
    /\ UNCHANGED <<counter, pc, job, snap, calls>>

ConstructorUpdate == constructor_update(Responses, DbAnswers)

\* threading.Thread(target=update_data, daemon=True).start()
ThreadStarts ==
    /\ pc = "idle" /\ ticks = 1
    /\ pc' = "update"
    /\ UNCHANGED <<counter, data, job, ticks, last, fetched, before, after, snap, calls>>

\* The number of (room, sensor) pairs, the loops' trip count.
Pairs == NumRooms * Len(multisensor_sensors)
pair_room(j) == sensor_room_mapping[((j - 1) \div Len(multisensor_sensors)) + 1]
pair_sensor(j) == multisensor_sensors[((j - 1) % Len(multisensor_sensors)) + 1]

\* update_data(): self.update() begins, at most max_ticks calls in all.  What the
\* sources will answer (one of responses, one of answers) and the random draw a
\* fallback would use are fixed here; after is the store this update() would leave
\* if nothing else ran meanwhile.
update_begins(responses, answers, max_ticks) ==
    /\ pc = "update" /\ ticks < max_ticks
    /\ \E response \in responses, db \in answers :
          \E try \in {try_update(data, response, db)} :
              \E draw \in (IF try.ok THEN {1} ELSE RandomDraws) :
                  /\ job' = [response |-> response, db |-> db, draw |-> draw,
                             i |-> 1, j |-> 1, k |-> 1]
                  /\ after' = IF try.ok THEN try.d ELSE populate_sensor_data(data, draw)
    /\ pc' = "live"
    /\ before' = data
    /\ snap' = NoSnap
    /\ last' = NoTick
    /\ fetched' = create_sensor_dict
    /\ ticks' = ticks + 1
    /\ UNCHANGED <<counter, data, calls>>

ThreadUpdateBegins == update_begins(Responses, DbAnswers, MaxTicks)

\* get() raises: the except branch is entered.
LiveRaises ==
    /\ pc = "live" /\ ~job.response.ok
    /\ pc' = "except"
    /\ job' = [job EXCEPT !.j = 1, !.k = 1]
    /\ last' = [outcome |-> "fallback", failed |-> "live", room |-> ""]
    /\ UNCHANGED <<counter, data, ticks, fetched, before, after, snap, calls>>

\* One entity of all_states is applied (update_sensor_value).
LiveWrite ==
    /\ pc = "live" /\ job.response.ok /\ job.response.val.ok
    /\ job.i <= Len(job.response.val.all_states)
    /\ data' = live_step(data, job.response.val.all_states[job.i])
    /\ job' = [job EXCEPT !.i = job.i + 1]
    /\ UNCHANGED <<counter, pc, ticks, last, fetched, before, after, snap, calls>>

\* fetch_live_data returns: response.ok was false, or the loop is through.
LiveDone ==
    /\ pc = "live" /\ job.response.ok
    /\ ~job.response.val.ok \/ job.i > Len(job.response.val.all_states)
    /\ pc' = "historic"
    /\ job' = [job EXCEPT !.j = 1, !.k = 1]
    /\ UNCHANGED <<counter, data, ticks, last, fetched, before, after, snap, calls>>

\* InfluxDB() or the first query raises.
HistoricRaises ==
    /\ pc = "historic" /\ ~job.db.ok
    /\ pc' = "except"
    /\ job' = [job EXCEPT !.j = 1, !.k = 1]
    /\ last' = [outcome |-> "fallback", failed |-> "historic", room |-> ""]
    /\ UNCHANGED <<counter, data, ticks, fetched, before, after, snap, calls>>

\* One history.append: point k of the query for pair j.
HistoricAppend ==
    /\ pc = "historic" /\ job.db.ok /\ job.db.val > 0 /\ job.j <= Pairs
    /\ data' = [data EXCEPT ![pair_room(job.j)].history[pair_sensor(job.j)] =
                    history_append(@, db_point(pair_sensor(job.j), job.k))]
    /\ job' = IF job.k < job.db.val THEN [job EXCEPT !.k = job.k + 1]
              ELSE [job EXCEPT !.j = job.j + 1, !.k = 1]
    /\ UNCHANGED <<counter, pc, ticks, last, fetched, before, after, snap, calls>>

\* get_historic_sensor_data returns.
HistoricDone ==
    /\ pc = "historic" /\ job.db.ok
    /\ job.db.val = 0 \/ job.j > Pairs
    /\ pc' = "occupancy"
    /\ job' = [job EXCEPT !.i = 1]
    /\ UNCHANGED <<counter, data, ticks, last, fetched, before, after, snap, calls>>

\* One turn of update_occupancy's loop: the room's Occupancy is written.
OccupancyWrite ==
    /\ pc = "occupancy" /\ job.i <= NumRooms
    /\ occupancy_step(data, sensor_room_mapping[job.i]).ok
    /\ data' = occupancy_step(data, sensor_room_mapping[job.i]).val
    /\ job' = [job EXCEPT !.i = job.i + 1]
    /\ UNCHANGED <<counter, pc, ticks, last, fetched, before, after, snap, calls>>

\* calculate_occupancy raises for the room: the except branch is entered.
OccupancyRaises ==
    /\ pc = "occupancy" /\ job.i <= NumRooms
    /\ ~occupancy_step(data, sensor_room_mapping[job.i]).ok
    /\ pc' = "except"
    /\ job' = [job EXCEPT !.j = 1, !.k = 1]
    /\ last' = [outcome |-> "fallback", failed |-> "occupancy",
                room |-> sensor_room_mapping[job.i]]
    /\ fetched' = data
    /\ UNCHANGED <<counter, data, ticks, before, after, snap, calls>>

\* update() returns from its try block; the thread goes on to time.sleep(60).
UpdateReturns ==
    /\ pc = "occupancy" /\ job.i > NumRooms
    /\ pc' = "sleep"
    /\ job' = NoJob
    /\ last' = [outcome |-> "ok", failed |-> "", room |-> ""]
    /\ fetched' = create_sensor_dict
    /\ UNCHANGED <<counter, data, ticks, before, after, snap, calls>>

\* populate_sensor_data, first write of a turn of the inner loop:
\* sensor_data["current_value"] = values[-1] for pair j.
PopulateCurrentValue ==
    /\ pc = "except" /\ job.j <= Pairs /\ job.k = 1
    /\ data' = [data EXCEPT ![pair_room(job.j)].current_value[pair_sensor(job.j)] =
                    populated_sensor(synthetic_values(pair_sensor(job.j), job.draw))
                        .current_value]
    /\ job' = [job EXCEPT !.k = 2]
    /\ UNCHANGED <<counter, pc, ticks, last, fetched, before, after, snap, calls>>

\* populate_sensor_data, second write of the turn:
\* sensor_data["history"] = list(zip(values, timestamps)) for pair j.
PopulateHistory ==
    /\ pc = "except" /\ job.j <= Pairs /\ job.k = 2
    /\ data' = [data EXCEPT ![pair_room(job.j)].history[pair_sensor(job.j)] =
                    populated_sensor(synthetic_values(pair_sensor(job.j), job.draw))
                        .history]
    /\ job' = [job EXCEPT !.j = job.j + 1, !.k = 1]
    /\ UNCHANGED <<counter, pc, ticks, last, fetched, before, after, snap, calls>>

\* update() returns from its except branch; the thread goes on to time.sleep(60).
PopulateDone ==
    /\ pc = "except" /\ job.j > Pairs
    /\ pc' = "sleep"
    /\ job' = NoJob
    /\ UNCHANGED <<counter, data, ticks, last, fetched, before, after, snap, calls>>

\* A step of the thread's update() once it has begun.
Update ==
    \/ LiveRaises \/ LiveWrite \/ LiveDone
    \/ HistoricRaises \/ HistoricAppend \/ HistoricDone
    \/ OccupancyWrite \/ OccupancyRaises \/ UpdateReturns
    \/ PopulateCurrentValue \/ PopulateHistory \/ PopulateDone

\* time.sleep(60) returns and the loop comes round.
LoopSleep ==
    /\ pc = "sleep"
    /\ pc' = "update"
    /\ UNCHANGED <<counter, data, job, ticks, last, fetched, before, after, snap, calls>>

Next == ConstructorUpdate \/ ThreadStarts \/ ThreadUpdateBegins \/ Update \/ LoopSleep

Spec == InitStore /\ [][Next]_vars

IsPrefix(a, b) == Len(a) <= Len(b) /\ SubSeq(b, 1, Len(a)) = a

Ascending(history) ==
    \A i \in 1..(Len(history) - 1) : history[i].time <= history[i + 1].time

\* C2: after any number of refresh ticks, successful or fallback, every sensor's
\* history is ordered by timestamp ascending.
C2_HistoriesAscending ==
    AtRest => \A r \in Rooms, k \in SensorKinds : Ascending(data[r].history[k])

\* C3: across every refresh tick each history only grows by appending: the history
\* before the tick is a prefix of the history after it.
C3_HistoryOnlyGrows ==
    (AtRest /\ ticks > 0) =>
        \A r \in Rooms, k \in SensorKinds : IsPrefix(before[r].history[k], data[r].history[k])

\* C3 as amended: a tick that does not fall back leaves every earlier history as a
\* prefix of the new one, and a tick that falls back leaves every history as the 24
\* synthetic entries, whatever it held before.
C3_HistoryGrowsUnlessFallback ==
    /\ (AtRest /\ last.outcome = "ok") =>
          \A r \in Rooms, k \in SensorKinds :
              IsPrefix(before[r].history[k], data[r].history[k])
    /\ (AtRest /\ last.outcome = "fallback") =>
          \A r \in Rooms, k \in SensorKinds :
              /\ Len(data[r].history[k]) = 24
              /\ \A i \in 1..24 : data[r].history[k][i].time = 30 * (i - 1)

\* C3 witness: a tick without fallback appended to a history that already had entries.
C3_Witness ==
    /\ AtRest /\ last.outcome = "ok"
    /\ \E r \in Rooms :
          /\ Len(before[r].history["CO2"]) > 0
          /\ Len(data[r].history["CO2"]) > Len(before[r].history["CO2"])

\* A whole number that is not negative, held in tenths.
IsCount(v) == v.t = "num" /\ v.n >= 0 /\ v.n % 10 = 0

\* C19: from the end of the first refresh tick on, between ticks every room's
\* Occupancy current value is an integer that is not negative, whatever ticks ran.
C19_OccupancyIsCount ==
    (AtRest /\ ticks >= 1) =>
        \A r \in Rooms : IsCount(data[r].current_value["Occupancy"])

\* C19 witness: a tick without fallback that followed a fallback computed a room's
\* count from a CO2 value below the baseline (the estimate is clamped to 0) and
\* another room's from a value above it.
C19_Witness ==
    /\ AtRest /\ ticks = 2 /\ last.outcome = "ok"
    /\ \E r \in Rooms :
          /\ data[r].current_value["CO2"] = Num(4000)
          /\ data[r].current_value["Occupancy"] = Num(0)
    /\ \E r \in Rooms :
          /\ data[r].current_value["CO2"] = NumStr(9515)
          /\ data[r].current_value["Occupancy"].n > 0

\* C28: at the end of every refresh tick each room's Occupancy current value is the
\* estimate computed from the room's CO2 current value and volume as the tick left
\* them.
C28_OccupancyMatchesCo2 ==
    (AtRest /\ ticks >= 1) =>
        \A r \in Rooms :
            /\ calculate_occupancy(data[r].current_value["CO2"], room_volume[r]).ok
            /\ data[r].current_value["Occupancy"] =
                  Num(Tenths(calculate_occupancy(data[r].current_value["CO2"],
                                                 room_volume[r]).val))

\* C6: if the occupancy computation fails for one room, every other room still has
\* its Occupancy current value computed and written in that tick, and the tick keeps
\* the data it had fetched.
C6_OtherRoomsStillComputed ==
    (AtRest /\ last.failed = "occupancy") =>
        \A r \in Rooms \ {last.room} :
            /\ IsNumeric(fetched[r].current_value["CO2"]) =>
                  data[r].current_value["Occupancy"] =
                      Num(Tenths(calculate_occupancy(fetched[r].current_value["CO2"],
                                                     room_volume[r]).val))
            /\ data[r].history = fetched[r].history
            /\ data[r].current_value["CO2"] = fetched[r].current_value["CO2"]

-----------------------------------------------------------------------------
(* The refresh thread beside the request path: the request path may read a  *)
(* room between any two steps of the thread's update().                     *)

\* The request path reads room r (show_current_data: the sensor's current_value
\* and history; create_interactive_room_buttons: each sensor's current_value),
\* once per update() of the thread.
ReadRoom(r) ==
    /\ ticks >= 2 /\ ~AtRest /\ snap = NoSnap
    /\ snap' = [room |-> r, mixed |-> data[r] \notin {before[r], after[r]}]
    /\ UNCHANGED <<counter, data, pc, job, ticks, last, fetched, before, after, calls>>

NextRace == Next \/ \E r \in Rooms : ReadRoom(r)

SpecRace == InitStore /\ [][NextRace]_vars

\* The thread's update(), step by step, leaves the store update() taken whole leaves.
RaceEndsAsUpdate == (AtRest /\ ticks >= 2) => data = after

\* C1: a read of a room while the refresh thread runs sees the room as it was
\* before the tick or as it is after the tick, never a mixture.
C1_ReadsSeeWholeTicks == ~snap.mixed

-----------------------------------------------------------------------------
(* The core components beside the refresh thread.  Sensor_Data() runs its   *)
(* first update() and starts the thread; the dashboard then evaluates       *)
(* stored current values against the thresholds and forecasts from stored   *)
(* histories while the thread's update() goes on writing the store.  The    *)
(* occupancy pass is called by update() only; its steps here are those of   *)
(* the thread's update().                                                   *)

\* The sensors whose stored values are evaluated and forecast here.
CoreSensors == {"Occupancy", "CO2"}
ForecastSensors == {"Occupancy"}

\* timestamps_all and values_all: new lists built from the stored history.
timestamps_of(history) == [i \in 1..Len(history) |-> history[i].time]
values_of(history) == [i \in 1..Len(history) |-> history[i].value.n]

NoCoreInput == [room |-> "", sensor |-> ""]

\* Sensor_Data.__init__ after create_sensor_dict; nothing has been evaluated yet.
InitCore ==
    /\ counter = PeopleCounter
    /\ StoreAtStartup
    /\ occ_in = NoInput /\ occ_out = NotCalled
    /\ show_in = NoInput /\ show_out = NotCalled
    /\ warn_in = NoCoreInput /\ warn_out = NotCalled
    /\ pred_in = NoCoreInput /\ pred_out = NotCalled

\* What get() does in a run beside the dashboard: raises, or answers with CO2
\* readings of both rooms, or with a reading, 'unknown' for the second room and a
\* temperature.
CoreResponses ==
    {Raised("ConnectionError"),
     Returned([ok |-> TRUE, all_states |-> listed({1, 2}, Len(LiveEntities))]),
     Returned([ok |-> TRUE, all_states |-> listed({1, 3, 4}, Len(LiveEntities))])}

\* What the historical source does there: raises, or answers every query with one
\* point or with MaxPoints.
CoreDbAnswers == {Raised("ConnectionError"), Returned(1), Returned(MaxPoints)}

\* The clock when the dashboard forecasts, in seconds after 06:00: 06:50:07 and
\* 06:51:00, early enough for the fit's integers to stay within 32 bits.
CoreClocks == {50 * 60 + 7, 51 * 60}

CoreConstructor == constructor_update(CoreResponses, CoreDbAnswers)
CoreUpdateBegins == update_begins(CoreResponses, CoreDbAnswers, MaxTicks)

\* The constructor has returned the object: its update() has run and the thread is
\* started.
Constructed == ticks >= 1 /\ pc # "idle"

\* check_for_warnings(sensor, current_value, unit) on a stored current value.
CoreCheckForWarnings ==
    /\ Constructed /\ warn_out = NotCalled
    /\ \E r \in Rooms, k \in CoreSensors :
          /\ warn_in' = [room |-> r, sensor |-> k]
          /\ warn_out' = check_for_warnings(k, data[r].current_value[k])
    /\ UNCHANGED <<counter, store, occ_in, occ_out, pred_in, pred_out, show_in, show_out>>

\* predict_data(room, sensor, unit, timestamps, values) on the lists the caller
\* builds from a stored history and filters at its clock reading current_time, called
\* when more than one entry is left; predict_data reads the clock again.
CorePredictData ==
    /\ Constructed /\ pred_out = NotCalled
    /\ \E r \in Rooms, k \in ForecastSensors, current_time \in CoreClocks,
          predict_time \in CoreClocks :
          \E series \in {filtered(timestamps_of(data[r].history[k]),
                                  values_of(data[r].history[k]), current_time)} :
              /\ predict_time >= current_time
              /\ Len(series.timestamps) > 1
              /\ pred_in' = [room |-> r, sensor |-> k]
              /\ pred_out' = predict_data(k, series.timestamps, series.values, predict_time)
    /\ UNCHANGED <<counter, store, occ_in, occ_out, warn_in, warn_out, show_in, show_out>>

NextCore ==
    \/ CoreConstructor \/ ThreadStarts \/ CoreUpdateBegins \/ Update \/ LoopSleep
    \/ CoreCheckForWarnings \/ CorePredictData

SpecCore == InitCore /\ [][NextCore]_vars

\* d and e hold the same histories and, for every sensor but Occupancy, the same
\* current values.
SameButOccupancy(d, e) ==
    \A r \in Rooms :
        /\ e[r].history = d[r].history
        /\ \A k \in SensorKinds \ {"Occupancy"} :
              e[r].current_value[k] = d[r].current_value[k]

\* C20: a step of the occupancy pass overwrites nothing but an Occupancy current
\* value, and threshold evaluation and forecasting overwrite nothing: every history
\* and every other current value is after the step what it was before, also while the
\* refresh thread is in the middle of an update().
C20_CoreChangesOnlyOccupancy ==
    [][/\ (OccupancyWrite \/ OccupancyRaises) => SameButOccupancy(data, data')
       /\ (CoreCheckForWarnings \/ CorePredictData) => data' = data]_vars

\* C20 witness: the thread's occupancy pass has just replaced a room's Occupancy
\* current value and is not through, after a stored value was evaluated and a stored
\* history forecast.
C20_Witness ==
    /\ pc = "occupancy" /\ job.i > 1 /\ ticks = 2
    /\ SameButOccupancy(after, data)
    /\ \E r \in Rooms :
          data[r].current_value["Occupancy"] # before[r].current_value["Occupancy"]
    /\ warn_out.ok /\ pred_out.ok

-----------------------------------------------------------------------------
(* The refresh loop on its own: __init__ runs update() and starts the       *)
(* thread of schedule_data_updates, which runs update() and sleeps, for     *)
(* ever.                                                                    *)

\* update() calls in a run of the loop, the constructor's included.
MaxLoopTicks == 3

\* What get() does in a tick of the loop: raises, answers not ok, answers with a CO2
\* reading for both rooms, or answers with 'unknown' for the second room.
LoopResponses ==
    {Raised("ConnectionError"), Returned([ok |-> FALSE, all_states |-> <<>>]),
     Returned([ok |-> TRUE, all_states |-> listed({1, 2}, Len(LiveEntities))]),
     Returned([ok |-> TRUE, all_states |-> listed({1, 3}, Len(LiveEntities))])}

\* What the historical source does in a tick of the loop: raises or answers one point.
LoopDbAnswers == {Raised("ConnectionError"), Returned(1)}

\* self.update() in the loop begins.
LoopUpdate == update_begins(LoopResponses, LoopDbAnswers, MaxLoopTicks)

NextLoop == ConstructorUpdate \/ ThreadStarts \/ LoopUpdate \/ Update \/ LoopSleep

\* The constructor runs on; the thread is scheduled again and again, the sources
\* answer or raise, and sleep returns.
SpecLoop ==
    /\ InitStore /\ [][NextLoop]_vars
    /\ WF_vars(ConstructorUpdate) /\ WF_vars(ThreadStarts)
    /\ WF_vars(LoopUpdate) /\ WF_vars(Update) /\ WF_vars(LoopSleep)

\* Every sensor of room r holds what populate_sensor_data writes: 24 entries at
\* 30-minute steps from 06:00 and the last of their values as the current value.
IsSynthetic(room) ==
    \A k \in SensorKinds :
        /\ Len(room.history[k]) = NumSynthetic
        /\ \A i \in 1..NumSynthetic : room.history[k][i].time = 30 * (i - 1)
        /\ room.current_value[k] = room.history[k][NumSynthetic].value

\* C21: a tick in which the live fetch, the historical fetch or the occupancy pass
\* failed ends with synthetic data in every sensor of every room, and the loop goes
\* on: after a failed tick (short of the bound on ticks) the next tick comes.
C21_FailedTickFallsBackAndLoopGoesOn ==
    /\ []((AtRest /\ last.outcome = "fallback") =>
            /\ last.failed \in {"live", "historic", "occupancy"}
            /\ \A r \in Rooms : IsSynthetic(data[r]))
    /\ \A n \in 1..(MaxLoopTicks - 1) :
          (ticks = n /\ last.outcome = "fallback") ~> (ticks = n + 1)

\* C21 witness: the third tick succeeded and appended its one point to synthetic
\* histories of 24 entries, so the tick before it, a tick of the loop, had fallen
\* back and the loop went on.
C21_Witness ==
    /\ ticks = 3 /\ pc = "sleep" /\ last.outcome = "ok"
    /\ \A r \in Rooms : IsSynthetic(before[r])
    /\ \A r \in Rooms : Len(data[r].history["CO2"]) = NumSynthetic + 1

-----------------------------------------------------------------------------
(* Forecasts one after the other, beside the refresh thread.                *)
(* predict_data(self, room, sensor, unit, timestamps, values) is a method   *)
(* of the Dashboard, whose self.data is the store the refresh thread goes   *)
(* on writing; it reads the clock itself.  pred_in and pred_out are the     *)
(* arguments and the outcomes of the calls made so far, in order.           *)

\* Calls of predict_data in a run.
MaxCalls == 3

\* The "unit" of each sensor in self.multisensor_sensors.
sensor_unit ==
    "Humidity" :> "%" @@ "Temperature" :> "°C" @@ "CO2" :> "ppm" @@ "IAQ" :> "IAQ" @@
    "UV Index" :> "UVI" @@ "Microphone Noise Level" :> "Volume" @@
    "Pressure" :> "hPa" @@ "Light" :> "lx" @@ "Gas Resistance" :> "Ω" @@
    "Occupancy" :> "People"

\* A forecaster that looks the series up itself: it fits the history stored for the
\* room's sensor when that holds more than one entry, and the lists passed otherwise.
predict_data_from_store(self_data, room, sensor, unit, timestamps, values, current_time) ==
    [returned |->
        IF Len(self_data[room].history[sensor]) > 1
        THEN predict_data(sensor, timestamps_of(self_data[room].history[sensor]),
                          values_of(self_data[room].history[sensor]), current_time)
        ELSE predict_data(sensor, timestamps, values, current_time),
     self_data |-> self_data]

\* predict_data called on a Dashboard whose self.data is self_data, when the clock
\* it reads shows current_time: what the call returns, and self.data as the call
\* leaves it.  The body names neither self nor room nor unit, and it assigns local
\* names only (recent_timestamps and recent_values are new lists).
predict_data_call(self_data, room, sensor, unit, timestamps, values, current_time) ==
    [returned |-> predict_data(sensor, timestamps, values, current_time),
     self_data |-> self_data]

\* The series forecast: one with a turning point at its second entry, and one of two
\* entries three hours apart, of which the window of the last two hours keeps one.
ForecastSeries ==
    { [timestamps |-> <<0, 60, 180>>, values |-> <<0, 2, 1>>],
      [timestamps |-> <<0, 180>>, values |-> <<0, 2>>] }

\* The sources in these runs: get() lists a CO2 reading for both rooms, and the
\* historical source answers every query with one point.
ForecastResponses ==
    {Returned([ok |-> TRUE, all_states |-> listed({1, 2}, Len(LiveEntities))])}
ForecastDbAnswers == {Returned(1)}

InitForecasts ==
    /\ counter = PeopleCounter
    /\ pred_in = <<>> /\ pred_out = <<>>
    /\ occ_in = NoInput /\ occ_out = NotCalled
    /\ warn_in = NoInput /\ warn_out = NotCalled
    /\ show_in = NoInput /\ show_out = NotCalled
    /\ StoreAtStartup

\* The Dashboard, made once the constructor of Sensor_Data has returned, calls
\* self.predict_data for a room and a sensor with two lists, at any point of the
\* thread's update().  stored is the length of the history self.data holds for that
\* room and sensor when the call is made.
CallForecast ==
    /\ Constructed /\ Len(pred_out) < MaxCalls
    /\ \E room \in Rooms, sensor \in {"CO2", "Light"}, series \in ForecastSeries,
          current_time \in Clocks :
          \E call \in {predict_data_call(data, room, sensor, sensor_unit[sensor],
                                         series.timestamps, series.values,
                                         current_time)} :
              /\ pred_in' = Append(pred_in, [room |-> room, sensor |-> sensor,
                                             timestamps |-> series.timestamps,
                                             values |-> series.values,
                                             now |-> current_time,
                                             stored |-> Len(data[room].history[sensor])])
              /\ pred_out' = Append(pred_out, call.returned)
              /\ data' = call.self_data
    /\ UNCHANGED <<counter, pc, job, ticks, last, fetched, before, after, snap,
                   occ_in, occ_out, warn_in, warn_out, show_in, show_out>>

\* The constructor, then the thread's update() with sources that answer, and the
\* Dashboard's calls between its steps.
NextForecasts ==
    \/ constructor_update(ForecastResponses, ForecastDbAnswers)
    \/ ThreadStarts
    \/ update_begins(ForecastResponses, ForecastDbAnswers, MaxTicks)
    \/ LiveWrite \/ LiveDone \/ HistoricAppend \/ HistoricDone
    \/ OccupancyWrite \/ UpdateReturns \/ LoopSleep
    \/ CallForecast

SpecForecasts == InitForecasts /\ [][NextForecasts]_vars

\* The inputs the claim names: sensor kind, timestamps, values and 'now'.
SameInputs(a, b) ==
    /\ a.sensor = b.sensor /\ a.timestamps = b.timestamps
    /\ a.values = b.values /\ a.now = b.now

\* Python's == on two floats: nan is equal to nothing, not even to itself.
FloatEq(p, q) == p.den # 0 /\ q.den # 0 /\ p = q

\* Two calls ended the same: both returned, with equal future times and with
\* predictions equal one by one as Python compares floats, or both raised the same
\* exception.
SameOutcome(a, b) ==
    IF a.ok /\ b.ok
    THEN /\ a.val.future_times = b.val.future_times
         /\ Len(a.val.predictions) = Len(b.val.predictions)
         /\ \A i \in 1..Len(a.val.predictions) :
               FloatEq(a.val.predictions[i], b.val.predictions[i])
    ELSE ~a.ok /\ ~b.ok /\ a.exc = b.exc

-----------------------------------------------------------------------------
(* The shape of the store.                                                  *)

\* C25: the rooms and the sensor kinds of each room are fixed at startup, 13 rooms
\* with the same 10 sensor kinds and empty histories, and every later state has the
\* same rooms with the same sensor kinds.
C25_RoomsAndSensorsFixed ==
    /\ Len(sensor_room_mapping) = 13 /\ Cardinality(AllRooms) = 13
    /\ Len(multisensor_sensors) = 10 /\ Cardinality(SensorKinds) = 10
    /\ DOMAIN data = Rooms
    /\ \A r \in Rooms :
          /\ DOMAIN data[r].current_value = SensorKinds
          /\ DOMAIN data[r].history = SensorKinds
          /\ ticks = 0 => \A k \in SensorKinds : data[r].history[k] = <<>>

\* C25 witness: a fallback tick and then a tick that succeeded, with its occupancy
\* pass, have run over the store.
C25_Witness ==
    /\ AtRest /\ ticks = 2 /\ last.outcome = "ok"
    /\ \A r \in Rooms : IsSynthetic(before[r])
    /\ \E r \in Rooms : data[r].current_value["CO2"] = NumStr(9515)

-----------------------------------------------------------------------------
(* fetch_live_data, one entity state at a time: each step is a response of  *)
(* the live source that lists one entity, applied to the store as it is.    *)

\* Entity states applied in a run.
MaxEntities == 2

\* Entity ids tried: sensors the store holds, sensors of Home Assistant the store
\* does not hold, a room that does not exist, an id with no room number, an id with
\* a part too many, and an entity that is no multisensor.
EntityIds ==
    { <<"sensor.multisensor", "115", "scd30", "co2">>,
      <<"sensor.multisensor", "108", "bme680", "temperature">>,
      <<"sensor.multisensor", "108", "bme680", "gas", "resistance">>,
      <<"sensor.multisensor", "115", "microphone", "noise", "level">>,
      <<"sensor.multisensor", "115", "tof", "distance">>,
      <<"sensor.multisensor", "115", "microphone", "voltage">>,
      <<"sensor.multisensor", "999", "scd30", "co2">>,
      <<"sensor.multisensor", "scd30", "co2">>,
      <<"sensor.multisensor", "115", "x", "bme680", "humidity">>,
      <<"sensor.other", "115", "scd30", "co2">> }

EntityStates == {NumStr(5), Str("unknown")}

\* get() answers with one entity state and fetch_live_data applies it.
ApplyEntity ==
    /\ pc = "idle"
    /\ ticks < MaxEntities
    /\ \E entity_id \in EntityIds, state \in EntityStates :
          \E response \in {Returned([ok |-> TRUE,
                                     all_states |-> <<[entity_id |-> entity_id,
                                                       state |-> state]>>])} :
              /\ data' = fetch_live_data(data, response).val
              /\ job' = [NoJob EXCEPT !.response = response]
    /\ before' = data
    /\ ticks' = ticks + 1
    /\ UNCHANGED <<counter, pc, last, fetched, after, snap, calls>>

NextLive == ApplyEntity

SpecLive == InitStore /\ [][NextLive]_vars

\* The entity applied last, and the sensors whose current value it changed.
AppliedEntity == job.response.val.all_states[1]

Overwritten ==
    {rk \in Rooms \X SensorKinds :
        data[rk[1]].current_value[rk[2]] # before[rk[1]].current_value[rk[2]]}

\* The sensor each Home Assistant kind suffix stands for in the store, where it has one.
KindOfSuffix ==
    <<"scd30", "co2">> :> "CO2" @@ <<"bme680", "temperature">> :> "Temperature" @@
    <<"bme680", "gas", "resistance">> :> "Gas Resistance" @@
    <<"microphone", "noise", "level">> :> "Microphone Noise Level"

\* C29: applying one live entity state overwrites the current value of at most one
\* sensor; that sensor is in the room the entity id names, its id contains the kind
\* part of the entity id, and it is not Occupancy; no history changes; an entity of a
\* room or a kind the store does not hold changes nothing.
C29_EntityWritesOneSensor ==
    ticks >= 1 =>
        /\ Cardinality(Overwritten) <= 1
        /\ \A r \in Rooms : data[r].history = before[r].history
        /\ \A rk \in Overwritten :
              /\ AppliedEntity.entity_id[1] = "sensor.multisensor"
              /\ rk[1] = "multisensor_" \o AppliedEntity.entity_id[2]
              /\ rk[2] # "Occupancy"
              /\ SubSeq(AppliedEntity.entity_id, 3, Len(AppliedEntity.entity_id))
                    \in DOMAIN KindOfSuffix
              /\ rk[2] = KindOfSuffix[SubSeq(AppliedEntity.entity_id, 3,
                                             Len(AppliedEntity.entity_id))]
              /\ data[rk[1]].current_value[rk[2]] = AppliedEntity.state

\* C29 witness: the CO2 entity of room 115 has just overwritten that room's CO2
\* current value, after an entity the store has no sensor for changed nothing.
C29_Witness ==
    /\ ticks = 2
    /\ AppliedEntity.entity_id = <<"sensor.multisensor", "115", "scd30", "co2">>
    /\ Overwritten = {<<"multisensor_115", "CO2">>}
    /\ before = create_sensor_dict
    /\ data["multisensor_115"].current_value["CO2"] = AppliedEntity.state

-----------------------------------------------------------------------------
(* examples/estimation_number_of_people.py: PeopleCounter.process_event     *)

\* Events processed in a run.
MaxEvents == 8

\* A process_event without the last line, max(0, self.people_count).
process_event_unclamped(people_count, event_type) ==
    IF event_type = "entry" THEN people_count + 1
    ELSE IF event_type = "exit" THEN people_count - 1
    ELSE people_count

\* process_event(event_type): people_count after the call.
process_event(people_count, event_type) ==
    Max(0, IF event_type = "entry" THEN people_count + 1
           ELSE IF event_type = "exit" THEN people_count - 1
           ELSE people_count)

\* The event types passed: the two the method knows and two it does not.
EventTypes == {"entry", "exit", "Exit", ""}

ProcessEvent ==
    /\ counter.processed < MaxEvents
    /\ \E event_type \in EventTypes :
          counter' = [people_count |-> process_event(counter.people_count, event_type),
                      event_type |-> event_type,
                      processed |-> counter.processed + 1]
    /\ UNCHANGED <<calls, store>>

NextCounter == ProcessEvent

SpecCounter == InitStore /\ [][NextCounter]_vars

\* C30: after any sequence of process_event calls people_count is >= 0; 'entry' adds
\* 1, 'exit' subtracts 1 but leaves a count of 0 at 0, and any other event type
\* leaves the count as it was.
C30_CountNeverNegative ==
    /\ [](counter.people_count >= 0)
    /\ [][(counter'.event_type = "entry" =>
              counter'.people_count = counter.people_count + 1)
          /\ ((counter'.event_type = "exit" /\ counter.people_count > 0) =>
                 counter'.people_count = counter.people_count - 1)
          /\ ((counter'.event_type = "exit" /\ counter.people_count = 0) =>
                 counter'.people_count = 0)
          /\ (counter'.event_type \notin {"entry", "exit"} =>
                 counter'.people_count = counter.people_count)]_counter

\* C30 witness: the first event was an 'exit', at a count of 0, and the count is 0.
C30_Witness ==
    /\ counter.processed = 1 /\ counter.event_type = "exit"
    /\ counter.people_count = 0

====
